---- MODULE Spec2Model ----
(***************************************************************************)
(* A model of jettison (src/src/jettison.js): the StreamView cursor, the   *)
(* codecs, Field, Definition and Schema.                                   *)
(*                                                                         *)
(* JavaScript values are records tagged by t.  A number is held as two     *)
(* 16-bit limbs, value = hi * 65536 + lo with lo in 0..65535, so that the  *)
(* whole range of a 32-bit field (and a little beyond it) is available.    *)
(***************************************************************************)
EXTENDS Integers, Sequences, FiniteSets, TLC

VARIABLES
    streamView,        \* the StreamView the codec calls act on
    last,              \* the last call made: its arguments, its outcome and
                       \* the StreamView it created and worked through
    definition,        \* the standalone Definition (jettison.define)
    heap,              \* the Definition objects a Schema has created
    definitions,       \* Schema.definitions: name -> Definition (heap index)
    definitionsById,   \* Schema.definitionsById: id -> Definition (heap index)
    nextDefinitionId   \* Schema.nextDefinitionId

vars == <<streamView, last, definition, heap, definitions, definitionsById,
          nextDefinitionId>>

----------------------------------------------------------------------------
(* JavaScript values *)

Limb == 256 * 256

Num(k) == [t |-> "number", hi |-> k \div Limb, lo |-> k % Limb]
Wide(h, l) == [t |-> "number", hi |-> h, lo |-> l]
BoolV(b) == [t |-> "boolean", b |-> b]
StrV(cps) == [t |-> "string", cps |-> cps]
ArrV(vs) == [t |-> "array", values |-> vs]
ObjV(props) == [t |-> "object", props |-> props]
Undefined == [t |-> "undefined"]

\* a < b on numbers
Less(a, b) == a.hi < b.hi \/ (a.hi = b.hi /\ a.lo < b.lo)

\* ToInt32 of a number, as an integer (always within the 32-bit signed range)
ToInt32(v) ==
    LET h == v.hi % Limb
    IN  (IF h >= Limb \div 2 THEN h - Limb ELSE h) * Limb + v.lo

\* JavaScript truthiness, for the values the codecs test
Truthy(v) ==
    CASE v.t = "undefined" -> FALSE
      [] v.t = "number" -> v.hi # 0 \/ v.lo # 0
      [] v.t = "boolean" -> v.b
      [] v.t = "string" -> Len(v.cps) > 0
      [] OTHER -> TRUE

\* (values && values.length) || 0
LengthOf(values) ==
    IF values.t = "array" THEN Len(values.values) ELSE 0

RECURSIVE Pow2(_)
Pow2(n) == IF n = 0 THEN 1 ELSE 2 * Pow2(n - 1)

----------------------------------------------------------------------------
(* Outcomes of a call: a value and the cursor it leaves, or a thrown error *)

Ok(v, sv) == [ok |-> TRUE, value |-> v, sv |-> sv]
Throw(kind, sv) == [ok |-> FALSE, err |-> kind, sv |-> sv]

----------------------------------------------------------------------------
(* DataView: typed access to the buffer at an explicit offset *)

Byte == 0 .. 255

\* the bytes of value v in a field of the given width, most significant first
BytesOf(v, width) ==
    LET h == v.hi % Limb
    IN  CASE width = 1 -> <<v.lo % 256>>
          [] width = 2 -> <<v.lo \div 256, v.lo % 256>>
          [] width = 4 -> <<h \div 256, h % 256, v.lo \div 256, v.lo % 256>>

\* the number held by the bytes bs (most significant first)
ValueOf(bs, signed) ==
    CASE Len(bs) = 1 ->
            Num(IF signed /\ bs[1] >= 128 THEN bs[1] - 256 ELSE bs[1])
      [] Len(bs) = 2 ->
            LET u == bs[1] * 256 + bs[2]
            IN  Num(IF signed /\ u >= Limb \div 2 THEN u - Limb ELSE u)
      [] Len(bs) = 4 ->
            LET h == bs[1] * 256 + bs[2]
            IN  Wide(IF signed /\ h >= Limb \div 2 THEN h - Limb ELSE h,
                     bs[3] * 256 + bs[4])

Reverse(s) == [i \in 1 .. Len(s) |-> s[Len(s) + 1 - i]]

\* floor(log2(n)) for an integer n >= 1
RECURSIVE FloorLog2Int(_)
FloorLog2Int(n) == IF n <= 1 THEN 0 ELSE 1 + FloorLog2Int(n \div 2)

Abs(k) == IF k < 0 THEN -k ELSE k

\* IEEE-754 single precision of an integer k, 0 < |k| < 256:
\* sign, exponent + 127, the top 7 bits of the fraction; the rest is zero
Float32Bytes(k) ==
    IF k = 0 THEN <<0, 0, 0, 0>>
    ELSE LET e == FloorLog2Int(Abs(k))
             m == Abs(k) - Pow2(e)
             E == e + 127
         IN  <<(IF k < 0 THEN 128 ELSE 0) + E \div 2,
               (E % 2) * 128 + m * Pow2(7 - e), 0, 0>>

\* IEEE-754 double precision of an integer k, 0 < |k| < 256:
\* sign, exponent + 1023, the top 12 bits of the fraction; the rest is zero
Float64Bytes(k) ==
    IF k = 0 THEN <<0, 0, 0, 0, 0, 0, 0, 0>>
    ELSE LET e == FloorLog2Int(Abs(k))
             m == Abs(k) - Pow2(e)
             E == e + 1023
             top == m * Pow2(12 - e)
         IN  <<(IF k < 0 THEN 128 ELSE 0) + E \div 16,
               (E % 16) * 16 + top \div 256, top % 256, 0, 0, 0, 0, 0>>

FloatBytes(k, width) == IF width = 4 THEN Float32Bytes(k) ELSE Float64Bytes(k)

\* the float the bytes hold: a small integer, or some other float
FloatOf(bs) ==
    LET ks == {k \in -255 .. 255 : FloatBytes(k, Len(bs)) = bs}
    IN  IF ks # {} THEN Num(CHOOSE k \in ks : TRUE)
        ELSE [t |-> "float", bits |-> bs]

\* the DataView accessor a fixed-length codec is constructed with
Accessor(type) ==
    CASE type = "boolean" -> [width |-> 1, signed |-> FALSE, float |-> FALSE]
      [] type = "int8"    -> [width |-> 1, signed |-> TRUE, float |-> FALSE]
      [] type = "int16"   -> [width |-> 2, signed |-> TRUE, float |-> FALSE]
      [] type = "int32"   -> [width |-> 4, signed |-> TRUE, float |-> FALSE]
      [] type = "uint8"   -> [width |-> 1, signed |-> FALSE, float |-> FALSE]
      [] type = "uint16"  -> [width |-> 2, signed |-> FALSE, float |-> FALSE]
      [] type = "uint32"  -> [width |-> 4, signed |-> FALSE, float |-> FALSE]
      [] type = "float32" -> [width |-> 4, signed |-> TRUE, float |-> TRUE]
      [] type = "float64" -> [width |-> 8, signed |-> TRUE, float |-> TRUE]

\* dataView.setIntN / setUintN / setFloatN (offset, value, littleEndian)
DataViewSet(bytes, offset, acc, v, littleEndian) ==
    IF offset < 0 \/ offset + acc.width > Len(bytes)
    THEN [ok |-> FALSE, err |-> "RangeError"]
    ELSE LET be == IF ~acc.float THEN BytesOf(v, acc.width)
                   ELSE IF v.t = "float" THEN v.bits
                   ELSE FloatBytes(ToInt32(v), acc.width)
             bs == IF littleEndian THEN Reverse(be) ELSE be
         IN  [ok |-> TRUE,
              bytes |-> [i \in 1 .. Len(bytes) |->
                           IF i > offset /\ i <= offset + acc.width
                           THEN bs[i - offset] ELSE bytes[i]]]

\* dataView.getIntN / getUintN / getFloatN (offset, littleEndian)
DataViewGet(bytes, offset, acc, littleEndian) ==
    IF offset < 0 \/ offset + acc.width > Len(bytes)
    THEN [ok |-> FALSE, err |-> "RangeError"]
    ELSE LET raw == SubSeq(bytes, offset + 1, offset + acc.width)
             bs == IF littleEndian THEN Reverse(raw) ELSE raw
         IN  [ok |-> TRUE,
              value |-> IF acc.float THEN FloatOf(bs)
                        ELSE ValueOf(bs, acc.signed)]

----------------------------------------------------------------------------
(* StreamView *)

\* StreamView.create(byteLength): a zeroed buffer, cursor at 0
StreamViewCreate(byteLength) ==
    [bytes |-> [i \in 1 .. byteLength |-> 0], byteOffset |-> 0]

----------------------------------------------------------------------------
(* The fixed-length codecs.  Throughout, the outcome of a call is bound once *)
(* as r \in {Call(...)}, and The picks the single result built from it.      *)

The(S) == CHOOSE x \in S : TRUE

IntTypes == {"int8", "int16", "int32", "uint8", "uint16", "uint32"}
FloatTypes == {"float32", "float64"}
FixedTypes == IntTypes \cup FloatTypes \cup {"boolean"}

\* FixedLengthCodec.getByteLength: this.byteLength
FixedByteLength(type) == Accessor(type).width

\* IntegerCodec constructor: minValue and maxValue
MinValue(type) ==
    IF Accessor(type).signed
    THEN CASE Accessor(type).width = 1 -> Num(-128)
           [] Accessor(type).width = 2 -> Num(-(Limb \div 2))
           [] Accessor(type).width = 4 -> Wide(-(Limb \div 2), 0)
    ELSE Num(0)

MaxValue(type) ==
    IF Accessor(type).signed
    THEN CASE Accessor(type).width = 1 -> Num(127)
           [] Accessor(type).width = 2 -> Num(Limb \div 2 - 1)
           [] Accessor(type).width = 4 -> Wide(Limb \div 2 - 1, Limb - 1)
    ELSE CASE Accessor(type).width = 1 -> Num(255)
           [] Accessor(type).width = 2 -> Num(Limb - 1)
           [] Accessor(type).width = 4 -> Wide(Limb - 1, Limb - 1)

\* FixedLengthCodec.get with the cursor left where it was
FixedLengthCodecGetStuck(type, sv, littleEndian) ==
    The({IF r.ok THEN Ok(r.value, sv) ELSE Throw(r.err, sv) :
         r \in {DataViewGet(sv.bytes, sv.byteOffset, Accessor(type),
                            littleEndian)}})

\* FixedLengthCodec.get with the cursor advanced whether or not the read worked
FixedLengthCodecGetAdvancing(type, sv, littleEndian) ==
    The({IF r.ok
         THEN Ok(r.value, [sv EXCEPT !.byteOffset = @ + FixedByteLength(type)])
         ELSE Throw(r.err, [sv EXCEPT !.byteOffset = @ + FixedByteLength(type)]) :
         r \in {DataViewGet(sv.bytes, sv.byteOffset, Accessor(type),
                            littleEndian)}})

\* FixedLengthCodec.get: read at the cursor, then advance it
FixedLengthCodecGet(type, sv, littleEndian) ==
    The({IF r.ok
         THEN Ok(r.value, [sv EXCEPT !.byteOffset = @ + FixedByteLength(type)])
         ELSE Throw(r.err, sv) :
         r \in {DataViewGet(sv.bytes, sv.byteOffset, Accessor(type),
                            littleEndian)}})

\* FixedLengthCodec.set: write at the cursor, then advance it
FixedLengthCodecSet(type, sv, v, littleEndian) ==
    The({IF r.ok
         THEN Ok(Undefined, [bytes |-> r.bytes,
                             byteOffset |-> sv.byteOffset + FixedByteLength(type)])
         ELSE Throw(r.err, sv) :
         r \in {DataViewSet(sv.bytes, sv.byteOffset, Accessor(type), v,
                            littleEndian)}})

\* IntegerCodec.set without the clamp
IntegerCodecSetWrapping(type, sv, v, littleEndian) ==
    FixedLengthCodecSet(type, sv, v, littleEndian)

\* IntegerCodec.set: clamp, then write
IntegerCodecSet(type, sv, v, littleEndian) ==
    The({FixedLengthCodecSet(type, sv, clamped, littleEndian) :
         clamped \in {IF Less(v, MinValue(type)) THEN MinValue(type)
                      ELSE IF Less(MaxValue(type), v) THEN MaxValue(type)
                      ELSE v}})

\* BooleanCodec.get
BooleanCodecGet(sv, littleEndian) ==
    The({IF r.ok THEN Ok(BoolV(Truthy(r.value)), r.sv) ELSE r :
         r \in {FixedLengthCodecGet("boolean", sv, littleEndian)}})

\* BooleanCodec.set
BooleanCodecSet(sv, v, littleEndian) ==
    FixedLengthCodecSet("boolean", sv, Num(IF Truthy(v) THEN 1 ELSE 0),
                        littleEndian)

----------------------------------------------------------------------------
(* VariableLengthUnsignedIntegerCodec *)

\* polyfill.log2, floored: the position of the highest set bit of v >= 1
FloorLog2(v) ==
    IF v.hi > 0 THEN 16 + FloorLog2Int(v.hi) ELSE FloorLog2Int(v.lo)

Max(a, b) == IF a >= b THEN a ELSE b
CeilDiv(a, b) == a \div b + (IF a % b = 0 THEN 0 ELSE 1)

\* getByteLength(value); log2(0) is -Infinity, and Math.max(-Infinity, 1) = 1
VarintGetByteLength(v) ==
    IF v.hi = 0 /\ v.lo = 0 THEN 1 * FixedByteLength("uint8")
    ELSE Max(CeilDiv(FloorLog2(v) + 1, 7), 1) * FixedByteLength("uint8")

\* set(streamView, value): the loop over remainder; remainder & 127 and
\* remainder >>= 7 act on ToInt32(remainder)
RECURSIVE VarintSetLoop(_, _, _)
VarintSetLoop(sv, remainder, littleEndian) ==
    IF ~Less(Num(0), remainder) THEN Ok(Undefined, sv)
    ELSE The({The({IF w.ok THEN VarintSetLoop(w.sv, rest, littleEndian) ELSE w :
                   w \in {IntegerCodecSet(
                              "uint8", sv,
                              Num((remainder.lo % 128)
                                  + (IF Truthy(rest) THEN 128 ELSE 0)),
                              littleEndian)}}) :
              rest \in {Num(ToInt32(remainder) \div 128)}})

VarintSet(sv, v, littleEndian) ==
    IF ~Truthy(v) THEN IntegerCodecSet("uint8", sv, Num(0), littleEndian)
    ELSE VarintSetLoop(sv, v, littleEndian)

\* 32-bit patterns as sets of bit positions
BitsOf(n) == {b \in 0 .. 31 : b < 8 /\ (n \div Pow2(b)) % 2 = 1}

RECURSIVE LimbOf(_, _, _)
LimbOf(bits, base, b) ==
    IF b > 15 THEN 0
    ELSE (IF base + b \in bits THEN Pow2(b) ELSE 0) + LimbOf(bits, base, b + 1)

\* the Int32 a pattern stands for
Int32Of(bits) ==
    The({Wide(IF h >= Limb \div 2 THEN h - Limb ELSE h, LimbOf(bits, 0, 0)) :
         h \in {LimbOf(bits, 16, 0)}})

\* (byte & 127) << (i * 7): the shift count is taken modulo 32
ShiftLeft(group, count) ==
    {b + (count % 32) : b \in BitsOf(group)} \cap (0 .. 31)

\* get(streamView): read until a byte has its high bit clear
RECURSIVE VarintGetLoop(_, _, _, _)
VarintGetLoop(sv, i, length, littleEndian) ==
    The({IF ~r.ok THEN r
         ELSE IF r.value.lo >= 128
         THEN VarintGetLoop(r.sv, i + 1,
                            length \cup ShiftLeft(r.value.lo % 128, i * 7),
                            littleEndian)
         ELSE Ok(Int32Of(length \cup ShiftLeft(r.value.lo % 128, i * 7)), r.sv) :
         r \in {FixedLengthCodecGet("uint8", sv, littleEndian)}})

VarintGet(sv, littleEndian) == VarintGetLoop(sv, 0, {}, littleEndian)

----------------------------------------------------------------------------
(* utf8.encode / utf8.decode: strings are sequences of code points *)

Utf8Symbol(cp) ==
    CASE cp < 128 -> <<cp>>
      [] cp >= 128 /\ cp < 2048 -> <<192 + cp \div 64, 128 + (cp % 64)>>
      [] cp >= 2048 /\ cp < Limb ->
            <<224 + cp \div 4096, 128 + ((cp \div 64) % 64), 128 + (cp % 64)>>
      [] OTHER ->
            <<240 + cp \div (64 * 4096), 128 + ((cp \div 4096) % 64),
              128 + ((cp \div 64) % 64), 128 + (cp % 64)>>

RECURSIVE Utf8Encode(_)
Utf8Encode(cps) ==
    IF Len(cps) = 0 THEN <<>>
    ELSE Utf8Symbol(Head(cps)) \o Utf8Encode(Tail(cps))

IsContinuation(bs, i) == i <= Len(bs) /\ bs[i] \div 64 = 2

\* the length of the symbol a first byte announces; 0 for no first byte
SymbolLength(b) ==
    CASE b < 128 -> 1
      [] b \div 32 = 6 -> 2
      [] b \div 16 = 14 -> 3
      [] b \div 8 = 30 -> 4
      [] OTHER -> 0

\* the code point of the n bytes at i
SymbolAt(bs, i, n) ==
    CASE n = 1 -> bs[i]
      [] n = 2 -> (bs[i] % 32) * 64 + (bs[i + 1] % 64)
      [] n = 3 -> (bs[i] % 16) * 4096 + (bs[i + 1] % 64) * 64 + (bs[i + 2] % 64)
      [] n = 4 -> (bs[i] % 8) * 64 * 4096 + (bs[i + 1] % 64) * 4096
                  + (bs[i + 2] % 64) * 64 + (bs[i + 3] % 64)

\* no overlong form, no surrogate, nothing beyond U+10FFFF
IsScalar(cp, n) ==
    CASE n = 1 -> TRUE
      [] n = 2 -> cp >= 128
      [] n = 3 -> cp >= 2048 /\ ~(cp >= 55296 /\ cp <= 57343)
      [] n = 4 -> cp >= Limb /\ cp <= 17 * Limb - 1

Invalid == <<-1>>

\* the code points of a byte string from i on, or Invalid where utf8.decode throws
RECURSIVE Utf8Decode(_, _)
Utf8Decode(bs, i) ==
    IF i > Len(bs) THEN <<>>
    ELSE The({
        IF n = 0 \/ \E j \in 1 .. n - 1 : ~IsContinuation(bs, i + j) THEN Invalid
        ELSE IF ~IsScalar(SymbolAt(bs, i, n), n) THEN Invalid
        ELSE The({IF rest = Invalid THEN Invalid
                  ELSE <<SymbolAt(bs, i, n)>> \o rest :
                  rest \in {Utf8Decode(bs, i + n)}}) :
        n \in {SymbolLength(bs[i])}})

----------------------------------------------------------------------------
(* StringCodec *)

\* StringCodec.getByteLength
StringCodecGetByteLength(v) ==
    IF Truthy(v)
    THEN The({VarintGetByteLength(Num(n)) + FixedByteLength("uint8") * n :
              n \in {Len(Utf8Encode(v.cps))}})
    ELSE VarintGetByteLength(Num(0))

\* the loop of StringCodec.set: one uint8 write per UTF-8 byte
RECURSIVE WriteBytes(_, _, _, _)
WriteBytes(sv, bs, i, littleEndian) ==
    IF i > Len(bs) THEN Ok(Undefined, sv)
    ELSE The({IF w.ok THEN WriteBytes(w.sv, bs, i + 1, littleEndian) ELSE w :
              w \in {IntegerCodecSet("uint8", sv, Num(bs[i]), littleEndian)}})

\* StringCodec.set
StringCodecSet(sv, v, littleEndian) ==
    IF Truthy(v)
    THEN The({The({IF w.ok THEN WriteBytes(w.sv, utf8String, 1, littleEndian)
                   ELSE w :
                   w \in {VarintSet(sv, Num(Len(utf8String)), littleEndian)}}) :
              utf8String \in {Utf8Encode(v.cps)}})
    ELSE VarintSet(sv, Num(0), littleEndian)

\* the loop of StringCodec.get: one uint8 read per byte; value is the bytes read
RECURSIVE ReadBytes(_, _, _, _)
ReadBytes(sv, n, acc, littleEndian) ==
    IF Len(acc) >= n THEN Ok(acc, sv)
    ELSE The({IF r.ok
              THEN ReadBytes(r.sv, n, Append(acc, r.value.lo), littleEndian)
              ELSE r :
              r \in {FixedLengthCodecGet("uint8", sv, littleEndian)}})

\* utf8.decode(string) at the end of StringCodec.get
DecodeRead(r) ==
    The({IF cps = Invalid THEN Throw("Error", r.sv) ELSE Ok(StrV(cps), r.sv) :
         cps \in {Utf8Decode(r.value, 1)}})

\* StringCodec.get
StringCodecGet(sv, littleEndian) ==
    The({IF ~l.ok THEN l
         ELSE IF ~Less(Num(0), l.value) THEN Ok(StrV(<<>>), l.sv)
         ELSE The({IF ~r.ok THEN r ELSE DecodeRead(r) :
                   r \in {ReadBytes(l.sv, ToInt32(l.value), <<>>, littleEndian)}}) :
         l \in {VarintGet(sv, littleEndian)}})

----------------------------------------------------------------------------
(* BooleanArrayCodec *)

\* BooleanArrayCodec.getByteLength
BooleanArrayCodecGetByteLength(values) ==
    VarintGetByteLength(Num(LengthOf(values)))
    + CeilDiv(LengthOf(values), 8) * FixedByteLength("uint8")

\* the loop of BooleanArrayCodec.set filling each byte from its high bit down
RECURSIVE PackBitsMsbFirst(_, _, _, _)
PackBitsMsbFirst(values, i, byte, bit) ==
    IF i > Len(values) THEN (IF bit > 0 THEN <<byte>> ELSE <<>>)
    ELSE IF bit = 8
    THEN <<byte>> \o PackBitsMsbFirst(values, i + 1,
                                      IF Truthy(values[i]) THEN 128 ELSE 0, 1)
    ELSE PackBitsMsbFirst(values, i + 1,
                          byte + (IF Truthy(values[i]) THEN Pow2(7 - bit) ELSE 0),
                          bit + 1)

\* the bytes the loop of BooleanArrayCodec.set hands to the uint8 codec:
\* a byte is handed over when bit reaches 8, and at the end when bit > 0
RECURSIVE PackBits(_, _, _, _)
PackBits(values, i, byte, bit) ==
    IF i > Len(values) THEN (IF bit > 0 THEN <<byte>> ELSE <<>>)
    ELSE IF bit = 8
    THEN <<byte>> \o PackBits(values, i + 1,
                              IF Truthy(values[i]) THEN 1 ELSE 0, 1)
    ELSE PackBits(values, i + 1,
                  byte + (IF Truthy(values[i]) THEN Pow2(bit) ELSE 0), bit + 1)

\* BooleanArrayCodec.set
BooleanArrayCodecSet(sv, values, littleEndian) ==
    The({IF ~w.ok \/ LengthOf(values) = 0 THEN w
         ELSE WriteBytes(w.sv, PackBits(values.values, 1, 0, 0), 1, littleEndian) :
         w \in {VarintSet(sv, Num(LengthOf(values)), littleEndian)}})

\* the booleans of bit 0 .. of one byte, stopping at the length-th value
UnpackByte(byte, have, length) ==
    [bit \in 1 .. (IF length - have < 8 THEN length - have ELSE 8) |->
        BoolV((byte \div Pow2(bit - 1)) % 2 = 1)]

\* the loop of BooleanArrayCodec.get
RECURSIVE BooleanArrayCodecGetLoop(_, _, _, _, _, _)
BooleanArrayCodecGetLoop(sv, byteIndex, byteLength, length, values, littleEndian) ==
    IF byteIndex >= byteLength THEN Ok(ArrV(values), sv)
    ELSE The({IF ~r.ok THEN r
              ELSE BooleanArrayCodecGetLoop(
                       r.sv, byteIndex + 1, byteLength, length,
                       values \o UnpackByte(r.value.lo, Len(values), length),
                       littleEndian) :
              r \in {FixedLengthCodecGet("uint8", sv, littleEndian)}})

\* BooleanArrayCodec.get
BooleanArrayCodecGet(sv, littleEndian) ==
    The({IF ~l.ok THEN l
         ELSE BooleanArrayCodecGetLoop(l.sv, 0, CeilDiv(ToInt32(l.value), 8),
                                       ToInt32(l.value), <<>>, littleEndian) :
         l \in {VarintGet(sv, littleEndian)}})

----------------------------------------------------------------------------
(* The codec registry *)

\* the keys of _codecTypes
CodecTypeNames == {"array", "boolean", "booleanArray", "float", "int",
                   "object", "string", "variableLength"}

\* the keys of _codecs: the shared codec instances
CodecNames == {"boolean", "booleanArray", "float32", "float64", "int8",
               "int16", "int32", "string", "uint8", "uint16", "uint32",
               "variableLength"}

\* a codec instance; _codecs[type] of a key _codecs lacks is undefined
NoCodec == [type |-> "undefined"]
Codec(type) == IF type \in CodecNames THEN [type |-> type] ELSE NoCodec

isValidType(type) == type \in CodecTypeNames \/ type \in CodecNames

\* codec.fixedByteLength, set by the FixedLengthCodec constructor alone
fixedByteLength(codec) == codec.type \in FixedTypes

Ret(v) == [ok |-> TRUE, value |-> v]
Err(kind) == [ok |-> FALSE, err |-> kind]

\* new ArrayCodec(valueCodec)
ArrayCodecNew(valueCodec) ==
    IF Codec(valueCodec) = NoCodec THEN Err("Error")
    ELSE Ret([type |-> "array", valueCodec |-> Codec(valueCodec)])

----------------------------------------------------------------------------
(* get, set and getByteLength of every codec.  An ArrayCodec made from a   *)
(* type name wraps a shared instance of _codecs, and an ObjectCodec holds   *)
(* Fields, whose codecs are shared instances or ArrayCodecs: the calls nest *)
(* object -> array -> shared instance, and are written in that order.       *)

\* object[key]
Prop(object, key) ==
    IF object.t = "object" /\ key \in DOMAIN object.props
    THEN object.props[key] ELSE Undefined

\* codec.get of a shared instance; a call on no codec is a TypeError
SharedCodecGet(codec, sv, littleEndian) ==
    CASE codec.type \in IntTypes \cup FloatTypes ->
            FixedLengthCodecGet(codec.type, sv, littleEndian)
      [] codec.type = "boolean" -> BooleanCodecGet(sv, littleEndian)
      [] codec.type = "variableLength" -> VarintGet(sv, littleEndian)
      [] codec.type = "string" -> StringCodecGet(sv, littleEndian)
      [] codec.type = "booleanArray" -> BooleanArrayCodecGet(sv, littleEndian)
      [] OTHER -> Throw("TypeError", sv)

\* codec.set of a shared instance
SharedCodecSet(codec, sv, v, littleEndian) ==
    CASE codec.type \in IntTypes -> IntegerCodecSet(codec.type, sv, v, littleEndian)
      [] codec.type \in FloatTypes ->
            FixedLengthCodecSet(codec.type, sv, v, littleEndian)
      [] codec.type = "boolean" -> BooleanCodecSet(sv, v, littleEndian)
      [] codec.type = "variableLength" -> VarintSet(sv, v, littleEndian)
      [] codec.type = "string" -> StringCodecSet(sv, v, littleEndian)
      [] codec.type = "booleanArray" -> BooleanArrayCodecSet(sv, v, littleEndian)
      [] OTHER -> Throw("TypeError", sv)

\* codec.getByteLength of a shared instance
SharedCodecGetByteLength(codec, v) ==
    CASE codec.type \in FixedTypes -> FixedByteLength(codec.type)
      [] codec.type = "variableLength" -> VarintGetByteLength(v)
      [] codec.type = "string" -> StringCodecGetByteLength(v)
      [] codec.type = "booleanArray" -> BooleanArrayCodecGetByteLength(v)

\* ArrayCodec.getByteLength: the sum over the values of a dynamic codec
RECURSIVE ArraySumByteLength(_, _, _)
ArraySumByteLength(codec, values, i) ==
    IF i > LengthOf(values) THEN 0
    ELSE SharedCodecGetByteLength(codec.valueCodec, values.values[i])
         + ArraySumByteLength(codec, values, i + 1)

\* ArrayCodec.getByteLength
ArrayCodecGetByteLength(codec, values) ==
    VarintGetByteLength(Num(LengthOf(values)))
    + (IF fixedByteLength(codec.valueCodec)
       THEN LengthOf(values) * SharedCodecGetByteLength(codec.valueCodec, Undefined)
       ELSE ArraySumByteLength(codec, values, 1))

RECURSIVE ArrayCodecGetLoop(_, _, _, _, _)
ArrayCodecGetLoop(codec, sv, length, values, littleEndian) ==
    IF Len(values) >= length THEN Ok(ArrV(values), sv)
    ELSE The({IF ~r.ok THEN r
              ELSE ArrayCodecGetLoop(codec, r.sv, length,
                                     Append(values, r.value), littleEndian) :
              r \in {SharedCodecGet(codec.valueCodec, sv, littleEndian)}})

\* ArrayCodec.get
ArrayCodecGet(codec, sv, littleEndian) ==
    The({IF ~l.ok THEN l
         ELSE IF Less(Num(0), l.value)
         THEN ArrayCodecGetLoop(codec, l.sv, ToInt32(l.value), <<>>, littleEndian)
         ELSE Ok(ArrV(<<>>), l.sv) :
         l \in {VarintGet(sv, littleEndian)}})

RECURSIVE ArrayCodecSetLoop(_, _, _, _, _)
ArrayCodecSetLoop(codec, sv, values, i, littleEndian) ==
    IF i > Len(values.values) THEN Ok(Undefined, sv)
    ELSE The({IF w.ok
              THEN ArrayCodecSetLoop(codec, w.sv, values, i + 1, littleEndian)
              ELSE w :
              w \in {SharedCodecSet(codec.valueCodec, sv, values.values[i],
                                    littleEndian)}})

\* ArrayCodec.set
ArrayCodecSet(codec, sv, values, littleEndian) ==
    The({IF w.ok /\ LengthOf(values) > 0
         THEN ArrayCodecSetLoop(codec, w.sv, values, 1, littleEndian)
         ELSE w :
         w \in {VarintSet(sv, Num(LengthOf(values)), littleEndian)}})

\* field.codec.get / set / getByteLength: an ArrayCodec or a shared instance
FieldCodecGet(codec, sv, littleEndian) ==
    IF codec.type = "array" THEN ArrayCodecGet(codec, sv, littleEndian)
    ELSE SharedCodecGet(codec, sv, littleEndian)

FieldCodecSet(codec, sv, v, littleEndian) ==
    IF codec.type = "array" THEN ArrayCodecSet(codec, sv, v, littleEndian)
    ELSE SharedCodecSet(codec, sv, v, littleEndian)

FieldCodecGetByteLength(codec, v) ==
    IF codec.type = "array" THEN ArrayCodecGetByteLength(codec, v)
    ELSE SharedCodecGetByteLength(codec, v)

\* object[key] = value
WithProp(props, key, v) ==
    [k \in DOMAIN props \cup {key} |-> IF k = key THEN v ELSE props[k]]

RECURSIVE ObjectCodecGetLoop(_, _, _, _)
ObjectCodecGetLoop(codec, sv, i, props) ==
    IF i > Len(codec.fields) THEN Ok(ObjV(props), sv)
    ELSE The({IF ~r.ok THEN r
              ELSE ObjectCodecGetLoop(codec, r.sv, i + 1,
                                      WithProp(props, codec.fields[i].key, r.value)) :
              r \in {FieldCodecGet(codec.fields[i].codec, sv, FALSE)}})

\* ObjectCodec.get; this.littleEndian is never set on an ObjectCodec
ObjectCodecGet(codec, sv) ==
    ObjectCodecGetLoop(codec, sv, 1, [k \in {} |-> Undefined])

RECURSIVE ObjectCodecSetLoop(_, _, _, _)
ObjectCodecSetLoop(codec, sv, object, i) ==
    IF i > Len(codec.fields) THEN Ok(Undefined, sv)
    ELSE The({IF w.ok THEN ObjectCodecSetLoop(codec, w.sv, object, i + 1) ELSE w :
              w \in {FieldCodecSet(codec.fields[i].codec, sv,
                                   Prop(object, codec.fields[i].key), FALSE)}})

\* ObjectCodec.set
ObjectCodecSet(codec, sv, object) == ObjectCodecSetLoop(codec, sv, object, 1)

\* definition.codec.get(streamView)
CodecGet(codec, sv, littleEndian) ==
    IF codec.type = "object" THEN ObjectCodecGet(codec, sv)
    ELSE FieldCodecGet(codec, sv, littleEndian)

\* definition.codec.set(streamView, object)
CodecSet(codec, sv, v, littleEndian) ==
    IF codec.type = "object" THEN ObjectCodecSet(codec, sv, v)
    ELSE FieldCodecSet(codec, sv, v, littleEndian)

\* the loop of ObjectCodec.getByteLength: the sum, and whether all were fixed
RECURSIVE ObjectCodecSum(_, _, _, _, _)
ObjectCodecSum(codec, object, i, byteLength, fixed) ==
    IF i > Len(codec.fields)
    THEN [ok |-> TRUE, value |-> byteLength, fixed |-> fixed]
    ELSE IF codec.fields[i].codec = NoCodec THEN Err("TypeError")
    ELSE ObjectCodecSum(
             codec, object, i + 1,
             byteLength + FieldCodecGetByteLength(
                              codec.fields[i].codec,
                              Prop(object, codec.fields[i].key)),
             fixed /\ fixedByteLength(codec.fields[i].codec))

\* ObjectCodec.getByteLength; cache is this.byteLength, <<>> while unset
ObjectCodecGetByteLength(codec, cache, object) ==
    IF cache # <<>>
    THEN [ok |-> TRUE, value |-> cache[1], byteLength |-> cache]
    ELSE The({IF ~r.ok THEN [ok |-> FALSE, err |-> r.err, byteLength |-> cache]
              ELSE [ok |-> TRUE, value |-> r.value,
                    byteLength |-> IF r.fixed THEN <<r.value>> ELSE cache] :
              r \in {ObjectCodecSum(codec, object, 1, 0, TRUE)}})

----------------------------------------------------------------------------
(* Field, ObjectCodec and Definition construction *)

\* an option the caller left out
Absent == "undefined"

\* new Field({key, type, valueType}) without the check for arrays of strings
FieldAllowingStringArrays(options) ==
    IF options.key = "" \/ options.key = Absent THEN Err("Error")
    ELSE IF ~isValidType(options.type) THEN Err("Error")
    ELSE IF options.type = "array"
    THEN IF options.valueType = "array" \/ ~isValidType(options.valueType)
         THEN Err("Error")
         ELSE The({IF c.ok
                   THEN Ret([key |-> options.key, type |-> options.type,
                             valueType |-> options.valueType, codec |-> c.value])
                   ELSE c :
                   c \in {ArrayCodecNew(options.valueType)}})
    ELSE Ret([key |-> options.key, type |-> options.type,
              valueType |-> options.valueType, codec |-> Codec(options.type)])

\* new Field({key, type, valueType})
Field(options) ==
    IF options.key = "" \/ options.key = Absent THEN Err("Error")
    ELSE IF ~isValidType(options.type) THEN Err("Error")
    ELSE IF options.type = "array"
    THEN IF options.valueType = "array" \/ options.valueType = "string"
            \/ ~isValidType(options.valueType)
         THEN Err("Error")
         ELSE The({IF c.ok
                   THEN Ret([key |-> options.key, type |-> options.type,
                             valueType |-> options.valueType, codec |-> c.value])
                   ELSE c :
                   c \in {ArrayCodecNew(options.valueType)}})
    ELSE Ret([key |-> options.key, type |-> options.type,
              valueType |-> options.valueType, codec |-> Codec(options.type)])

\* new ObjectCodec(fields): fields.map(options => new Field(options))
RECURSIVE ObjectCodecFields(_, _, _)
ObjectCodecFields(fields, i, made) ==
    IF i > Len(fields) THEN Ret([type |-> "object", fields |-> made])
    ELSE The({IF f.ok THEN ObjectCodecFields(fields, i + 1, Append(made, f.value))
              ELSE f :
              f \in {Field(fields[i])}})

ObjectCodecNew(fields) == ObjectCodecFields(fields, 1, <<>>)

\* new IntegerCodec({byteLength, signed}), through the FixedLengthCodec checks
IntegerCodecNew(options) ==
    IF options.byteLength \in {1, 2, 4}
    THEN Ret([type |-> CASE options.byteLength = 1 ->
                              (IF options.signed THEN "int8" ELSE "uint8")
                         [] options.byteLength = 2 ->
                              (IF options.signed THEN "int16" ELSE "uint16")
                         [] options.byteLength = 4 ->
                              (IF options.signed THEN "int32" ELSE "uint32")])
    ELSE Err("Error")

\* new FloatCodec({byteLength})
FloatCodecNew(options) ==
    CASE options.byteLength = 4 -> Ret([type |-> "float32"])
      [] options.byteLength = 8 -> Ret([type |-> "float64"])
      [] OTHER -> Err("RangeError")

\* _codecs[codec] || new _codecTypes[codec](...codecArgs); arg is codecArgs[0]
DefinitionCodec(codec, arg) ==
    CASE codec \in CodecNames -> Ret(Codec(codec))
      [] codec = "array" -> ArrayCodecNew(arg)
      [] codec = "object" -> ObjectCodecNew(arg)
      [] codec = "int" -> IntegerCodecNew(arg)
      [] codec = "float" -> FloatCodecNew(arg)

\* new Definition(codec, {id, key, codecArgs})
DefinitionNew(codec, id, key, arg) ==
    IF ~isValidType(codec) THEN Err("Error")
    ELSE The({IF c.ok
              THEN Ret([codec |-> c.value, id |-> id, key |-> key,
                        byteLength |-> <<>>])
              ELSE c :
              c \in {DefinitionCodec(codec, arg)}})

\* StreamView.createFromString(string): one uint8 write per character
StreamViewCreateFromString(string) ==
    The({[w.sv EXCEPT !.byteOffset = 0] :
         w \in {WriteBytes(StreamViewCreate(Len(string)), string, 1, FALSE)}})

\* codec.getByteLength(object) for the codec of a Definition def
DefinitionGetByteLength(def, object) ==
    IF def.codec.type = "object"
    THEN ObjectCodecGetByteLength(def.codec, def.byteLength, object)
    ELSE [ok |-> TRUE, value |-> FieldCodecGetByteLength(def.codec, object),
          byteLength |-> def.byteLength]

\* the rest of Definition.stringify once the byte length n is known
StringifyInto(def, object, n) ==
    IF ~n.ok
    THEN [ok |-> FALSE, err |-> n.err, byteLength |-> n.byteLength,
          sv |-> StreamViewCreate(0)]
    ELSE The({IF w.ok
              THEN [ok |-> TRUE, value |-> w.sv.bytes, sv |-> w.sv,
                    byteLength |-> n.byteLength]
              ELSE [ok |-> FALSE, err |-> w.err, sv |-> w.sv,
                    byteLength |-> n.byteLength] :
              w \in {The({CodecSet(def.codec, sv, object, FALSE) :
                          sv \in {StreamViewCreate(n.value)}})}})

\* Definition.stringify(object): the string, the StreamView it was written
\* through, and the cache the codec is left with
DefinitionStringify(def, object) ==
    The({StringifyInto(def, object, n) :
         n \in {DefinitionGetByteLength(def, object)}})

\* Definition.parse(string)
DefinitionParse(def, string) ==
    The({CodecGet(def.codec, sv, FALSE) :
         sv \in {StreamViewCreateFromString(string)}})

----------------------------------------------------------------------------
(* Bounds and the inputs drawn within them *)

MaxBools == 4       \* every boolean array up to this length is tried
MaxStrLen == 2      \* longest string, in code points
MaxArrayLen == 2    \* longest array
MaxDefs == 2        \* define calls made on one Schema

\* every sequence over S of length at most n
SeqsUpTo(S, n) == UNION {[1 .. k -> S] : k \in 0 .. n}

\* A, e-acute, the euro sign, a code point beyond the basic plane
Alphabet == {65, 233, 8364, 128512}

\* integers around every limit of every integer codec
IntSamples ==
    {Num(k) : k \in {0, 1, -1, 5, -5, 127, 128, -128, -129, 200, 255, 256,
                     300, 32767, 32768, -32768, -32769, 65535, 65536}}
    \cup {Wide(32767, 65535), Wide(32768, 0), Wide(-32768, 0),
          Wide(-32769, 65535), Wide(65535, 65535), Wide(65536, 0)}

\* non-negative integers around every change of varint length, up to 2^32 - 1
VarintSamples ==
    {Num(k) : k \in {0, 1, 127, 128, 16383, 16384, 2097151, 2097152,
                     268435455, 268435456}}
    \cup {Wide(32767, 65535), Wide(32768, 0), Wide(65535, 65535)}

\* boolean arrays: every short one, and around one and two whole bytes the
\* arrays with a single true value at each position, all true and all false
BoolSamples ==
    SeqsUpTo({BoolV(TRUE), BoolV(FALSE)}, MaxBools)
    \cup {[i \in 1 .. n |-> BoolV(i = k)] : n \in {8, 9, 16, 17}, k \in 0 .. 17}
    \cup {[i \in 1 .. n |-> BoolV(TRUE)] : n \in {8, 9, 16, 17}}

\* the values handed to a standalone codec of the given type
Samples(codec) ==
    CASE codec.type \in IntTypes -> IntSamples
      [] codec.type \in FloatTypes -> {Num(0), Num(1), Num(-2), Num(3), Num(255)}
      [] codec.type = "boolean" -> {BoolV(TRUE), BoolV(FALSE)}
      [] codec.type = "variableLength" -> VarintSamples
      [] codec.type = "string" -> {StrV(c) : c \in SeqsUpTo(Alphabet, MaxStrLen)}
      [] codec.type = "booleanArray" ->
            {ArrV(b) : b \in BoolSamples}
      [] OTHER -> {Undefined}

\* the values handed to a codec inside an array or an object
ElementSamples(codec) ==
    CASE codec.type \in IntTypes ->
            {Num(0), Num(5), MinValue(codec.type), MaxValue(codec.type)}
      [] codec.type \in FloatTypes -> {Num(0), Num(-2)}
      [] codec.type = "boolean" -> {BoolV(TRUE), BoolV(FALSE)}
      [] codec.type = "variableLength" -> {Num(0), Num(128), Wide(32768, 0)}
      [] codec.type = "string" -> {StrV(<<>>), StrV(<<65>>), StrV(<<233, 8364>>)}
      [] codec.type = "booleanArray" ->
            {ArrV(<<>>), ArrV(<<BoolV(TRUE)>>),
             ArrV([i \in 1 .. 9 |-> BoolV(i % 2 = 1)])}
      [] OTHER -> {Num(5)}

FieldSamples(codec) ==
    IF codec.type = "array"
    THEN {ArrV(a) : a \in SeqsUpTo(ElementSamples(codec.valueCodec), MaxArrayLen)}
    ELSE ElementSamples(codec)

FieldKeys(codec) == {codec.fields[i].key : i \in 1 .. Len(codec.fields)}

FieldOf(codec, key) ==
    codec.fields[CHOOSE i \in 1 .. Len(codec.fields) : codec.fields[i].key = key]

\* the objects handed to an ObjectCodec: one sample per field
ObjectSamples(codec) ==
    LET all == UNION {FieldSamples(codec.fields[i].codec) :
                        i \in 1 .. Len(codec.fields)}
    IN  {ObjV(p) : p \in {f \in [FieldKeys(codec) -> all] :
                            \A k \in FieldKeys(codec) :
                                f[k] \in FieldSamples(FieldOf(codec, k).codec)}}

\* the values handed to Definition.stringify
ValuesFor(codec) ==
    CASE codec.type = "object" -> ObjectSamples(codec)
      [] codec.type = "array" -> FieldSamples(codec) \cup {Undefined}
      [] OTHER -> Samples(codec)

\* type names a caller may write: every registered one, and two that are not
TypeUniverse == CodecNames \cup CodecTypeNames \cup {"bogus", Absent}

Opt(key, type, valueType) == [key |-> key, type |-> type, valueType |-> valueType]

\* every field description over the keys and type names
FieldOptions ==
    {Opt(k, ty, Absent) : k \in {"n", "", Absent}, ty \in TypeUniverse \ {"array"}}
    \cup {Opt(k, "array", vt) : k \in {"n", "", Absent}, vt \in TypeUniverse}

\* field lists: every single description, and some longer lists
FieldLists ==
    {<<o>> : o \in FieldOptions}
    \cup {<<>>,
          <<Opt("a", "int16", Absent), Opt("b", "boolean", Absent)>>,
          <<Opt("n", "uint32", Absent), Opt("s", "string", Absent)>>,
          <<Opt("s", "string", Absent), Opt("o", "object", Absent)>>,
          <<Opt("f", "float64", "string"), Opt("xs", "array", "int8")>>,
          <<Opt("a", "uint8", Absent), Opt("", "uint8", Absent)>>}

\* the arguments of jettison.define(codec, ...args)
DefineArgs(codec) ==
    CASE codec = "object" -> FieldLists
      [] codec = "array" -> TypeUniverse
      [] codec = "int" -> {[byteLength |-> w, signed |-> sg] :
                              w \in {1, 2, 3, 4}, sg \in BOOLEAN}
      [] codec = "float" -> {[byteLength |-> w] : w \in {2, 4, 8}}
      [] OTHER -> {Absent}

\* strings handed to parse that no stringify produced
StrayStrings ==
    {<<>>, <<0>>, <<3>>, <<5, 1>>, <<128>>, <<255, 255, 255>>, <<2, 65>>,
     <<2, 195, 40>>, <<0, 0, 0, 7>>}

----------------------------------------------------------------------------
(* The life of one standalone Definition: jettison.define, then stringify,  *)
(* parse and getByteLength calls on it                                      *)

NoDefinition == [codec |-> [type |-> "none"], id |-> Absent, key |-> Absent,
                 byteLength |-> <<>>]
NoStreamView == StreamViewCreate(0)
NoHeap == <<>>
NoMap == [k \in {} |-> 0]

Init ==
    /\ definition = NoDefinition
    /\ last = [op |-> "none"]
    /\ streamView = NoStreamView
    /\ heap = NoHeap
    /\ definitions = NoMap
    /\ definitionsById = NoMap
    /\ nextDefinitionId = 1

\* jettison.define(codec, ...args)
Define(codec, arg) ==
    /\ definition = NoDefinition
    /\ \E d \in {DefinitionNew(codec, Absent, Absent, arg)} :
           /\ definition' = IF d.ok THEN d.value ELSE definition
           /\ last' = [op |-> "define", codec |-> codec, arg |-> arg,
                       ok |-> d.ok]
    /\ UNCHANGED <<streamView, heap, definitions, definitionsById,
                   nextDefinitionId>>

\* definition.stringify(object)
DefStringify(object) ==
    /\ definition # NoDefinition
    /\ \E r \in {DefinitionStringify(definition, object)} :
           /\ definition' = [definition EXCEPT !.byteLength = r.byteLength]
           /\ last' = [op |-> "stringify", object |-> object, ok |-> r.ok,
                       string |-> IF r.ok THEN r.value ELSE <<>>,
                       err |-> IF r.ok THEN "" ELSE r.err, sv |-> r.sv]
    /\ UNCHANGED <<streamView, heap, definitions, definitionsById,
                   nextDefinitionId>>

\* definition.parse(string); sent tells whether the string is the one the
\* last stringify returned, and then object is what was stringified
DefParse(string, sent, object) ==
    /\ definition # NoDefinition
    /\ \E r \in {DefinitionParse(definition, string)} :
           last' = [op |-> "parse", string |-> string, sent |-> sent,
                    object |-> object, ok |-> r.ok,
                    value |-> IF r.ok THEN r.value ELSE Undefined,
                    err |-> IF r.ok THEN "" ELSE r.err, sv |-> r.sv]
    /\ UNCHANGED <<definition, streamView, heap, definitions, definitionsById,
                   nextDefinitionId>>

\* definition.codec.getByteLength(object)
DefGetByteLength(object) ==
    /\ definition # NoDefinition
    /\ \E r \in {DefinitionGetByteLength(definition, object)} :
           /\ definition' = [definition EXCEPT !.byteLength = r.byteLength]
           /\ last' = [op |-> "getByteLength", object |-> object, ok |-> r.ok,
                       value |-> IF r.ok THEN r.value ELSE 0,
                       cached |-> definition.byteLength # <<>>]
    /\ UNCHANGED <<streamView, heap, definitions, definitionsById,
                   nextDefinitionId>>

DefineAny ==
    \E codec \in TypeUniverse : \E arg \in DefineArgs(codec) : Define(codec, arg)

StringifyAny == \E object \in ValuesFor(definition.codec) : DefStringify(object)

ParseSent ==
    /\ last.op = "stringify" /\ last.ok
    /\ DefParse(last.string, TRUE, last.object)

ParseStray == \E string \in StrayStrings : DefParse(string, FALSE, Undefined)

GetByteLengthAny ==
    \E object \in ValuesFor(definition.codec) : DefGetByteLength(object)

DefNext == DefineAny \/ StringifyAny \/ ParseSent \/ ParseStray \/ GetByteLengthAny

SpecDef == Init /\ [][DefNext]_vars

----------------------------------------------------------------------------
(* Schema: createSchema(), then define, stringify and parse calls on it *)

\* the names an empty object {} already answers to, through Object.prototype
ObjectPrototypeKeys == {"constructor", "toString"}

\* the message of the Error thrown for a name or id without a Definition
NotDefined == "is not defined in schema"

\* the rest of Schema.stringify once the codec's byte length n is known:
\* the id through the id codec, then the object through definition.codec
SchemaStringifyInto(def, object, n) ==
    IF ~n.ok
    THEN [ok |-> FALSE, err |-> n.err, byteLength |-> n.byteLength, value |-> <<>>]
    ELSE The({
        IF ~i.ok
        THEN [ok |-> FALSE, err |-> i.err, byteLength |-> n.byteLength,
              value |-> <<>>]
        ELSE The({IF w.ok
                  THEN [ok |-> TRUE, err |-> "", byteLength |-> n.byteLength,
                        value |-> w.sv.bytes]
                  ELSE [ok |-> FALSE, err |-> w.err, byteLength |-> n.byteLength,
                        value |-> <<>>] :
                  w \in {CodecSet(def.codec, i.sv, object, FALSE)}}) :
        i \in {IntegerCodecSet(
                   "uint8",
                   StreamViewCreate(FixedByteLength("uint8") + n.value),
                   Num(def.id), FALSE)}})

\* Schema.stringify for a name that has a Definition
SchemaStringifyWith(def, object) ==
    The({SchemaStringifyInto(def, object, n) :
         n \in {DefinitionGetByteLength(def, object)}})

\* the rest of Schema.parse once the id has been read
SchemaParseFrom(r) ==
    IF ~r.ok THEN [ok |-> FALSE, err |-> r.err, id |-> -1]
    ELSE IF r.value.lo \notin DOMAIN definitionsById
    THEN [ok |-> FALSE, err |-> NotDefined, id |-> r.value.lo]
    ELSE The({IF d.ok
              THEN [ok |-> TRUE, err |-> "", id |-> r.value.lo,
                    value |-> [key |-> heap[definitionsById[r.value.lo]].key,
                               data |-> d.value]]
              ELSE [ok |-> FALSE, err |-> d.err, id |-> r.value.lo] :
              d \in {CodecGet(heap[definitionsById[r.value.lo]].codec, r.sv,
                              FALSE)}})

\* Schema.parse(string)
SchemaParseString(string) ==
    The({The({SchemaParseFrom(r) :
              r \in {FixedLengthCodecGet("uint8", sv, FALSE)}}) :
         sv \in {StreamViewCreateFromString(string)}})

\* m[k] = v
Bind(m, k, v) == [x \in DOMAIN m \cup {k} |-> IF x = k THEN v ELSE m[x]]

\* schema.define(key, codec, ...args) with the id taken after the increment
SchemaDefinePreIncrement(key, codec, arg) ==
    /\ nextDefinitionId' = nextDefinitionId + 1
    /\ \E d \in {DefinitionNew(codec, nextDefinitionId + 1, key, arg)} :
           /\ heap' = IF d.ok THEN Append(heap, d.value) ELSE heap
           /\ definitions' =
                  IF d.ok THEN Bind(definitions, key, Len(heap) + 1)
                  ELSE definitions
           /\ definitionsById' =
                  IF d.ok THEN Bind(definitionsById, d.value.id, Len(heap) + 1)
                  ELSE definitionsById
           /\ last' = [op |-> "define", key |-> key, codec |-> codec,
                       arg |-> arg, ok |-> d.ok]
    /\ UNCHANGED <<streamView, definition>>

\* schema.define(key, codec, ...args): the id is taken, and the counter
\* moved, before the Definition is constructed
SchemaDefine(key, codec, arg) ==
    /\ nextDefinitionId' = nextDefinitionId + 1
    /\ \E d \in {DefinitionNew(codec, nextDefinitionId, key, arg)} :
           /\ heap' = IF d.ok THEN Append(heap, d.value) ELSE heap
           /\ definitions' =
                  IF d.ok THEN Bind(definitions, key, Len(heap) + 1)
                  ELSE definitions
           /\ definitionsById' =
                  IF d.ok THEN Bind(definitionsById, d.value.id, Len(heap) + 1)
                  ELSE definitionsById
           /\ last' = [op |-> "define", key |-> key, codec |-> codec,
                       arg |-> arg, ok |-> d.ok]
    /\ UNCHANGED <<streamView, definition>>

\* a stringify that forgets the name of the Definition it used
SchemaStringifyForgetting(key, object) ==
    /\ IF key \in DOMAIN definitions
       THEN \E r \in {SchemaStringifyWith(heap[definitions[key]], object)} :
                /\ heap' = [heap EXCEPT ![definitions[key]].byteLength =
                                            r.byteLength,
                                        ![definitions[key]].key = Absent]
                /\ last' = [op |-> "stringify", key |-> key, object |-> object,
                            ok |-> r.ok, err |-> r.err, string |-> r.value]
       ELSE /\ heap' = heap
            /\ last' = [op |-> "stringify", key |-> key, object |-> object,
                        ok |-> FALSE,
                        err |-> IF key \in ObjectPrototypeKeys THEN "TypeError"
                                ELSE NotDefined,
                        string |-> <<>>]
    /\ UNCHANGED <<streamView, definition, definitions, definitionsById,
                   nextDefinitionId>>

\* schema.stringify(key, object)
SchemaStringify(key, object) ==
    /\ IF key \in DOMAIN definitions
       THEN \E r \in {SchemaStringifyWith(heap[definitions[key]], object)} :
                /\ heap' = [heap EXCEPT ![definitions[key]].byteLength =
                                            r.byteLength]
                /\ last' = [op |-> "stringify", key |-> key, object |-> object,
                            ok |-> r.ok, err |-> r.err, string |-> r.value]
       ELSE /\ heap' = heap
            /\ last' = [op |-> "stringify", key |-> key, object |-> object,
                        ok |-> FALSE,
                        \* an inherited property is not null, and has no codec
                        err |-> IF key \in ObjectPrototypeKeys THEN "TypeError"
                                ELSE NotDefined,
                        string |-> <<>>]
    /\ UNCHANGED <<streamView, definition, definitions, definitionsById,
                   nextDefinitionId>>

\* schema.parse(string); sent tells whether the string is the one the last
\* stringify returned, and then key and object are what was stringified
SchemaParse(string, sent, key, object) ==
    /\ \E r \in {SchemaParseString(string)} :
           last' = [op |-> "parse", string |-> string, sent |-> sent,
                    key |-> key, object |-> object, ok |-> r.ok,
                    err |-> r.err, id |-> r.id,
                    value |-> IF r.ok THEN r.value ELSE Undefined]
    /\ UNCHANGED <<streamView, definition, heap, definitions, definitionsById,
                   nextDefinitionId>>


\* names given to define, and names asked of stringify
SchemaKeys == {"ping", "pong"}
SchemaNames == SchemaKeys \cup ObjectPrototypeKeys \cup {"nope"}

\* the codec and arguments of a schema.define call
SchemaDefineArgs ==
    {<<"object", <<>>>>,
     <<"object", <<Opt("n", "uint8", Absent)>>>>,
     <<"object", <<Opt("n", "variableLength", Absent)>>>>,
     <<"object", <<Opt("n", "variableLength", Absent),
                   Opt("m", "uint8", Absent)>>>>,
     <<"object", <<Opt("s", "string", Absent), Opt("b", "boolean", Absent)>>>>,
     <<"bogus", Absent>>}

\* the objects handed to schema.stringify under a name
SchemaValues(key) ==
    IF key \in DOMAIN definitions
    THEN ValuesFor(heap[definitions[key]].codec)
    ELSE {ObjV(<<>>)}

\* strings handed to schema.parse that no stringify produced
SchemaStrayStrings ==
    {<<>>, <<0>>, <<1>>, <<2>>, <<3>>, <<2, 5>>, <<1, 7>>, <<200, 1>>,
     <<3, 128>>}

SchemaDefineAny ==
    /\ nextDefinitionId <= MaxDefs
    /\ \E key \in SchemaKeys : \E a \in SchemaDefineArgs :
           SchemaDefine(key, a[1], a[2])

SchemaStringifyAny ==
    \E key \in SchemaNames : \E object \in SchemaValues(key) :
        SchemaStringify(key, object)

SchemaParseSent ==
    /\ last.op = "stringify" /\ last.ok
    /\ SchemaParse(last.string, TRUE, last.key, last.object)

SchemaParseStray ==
    \E string \in SchemaStrayStrings : SchemaParse(string, FALSE, Absent, Undefined)

Next ==
    SchemaDefineAny \/ SchemaStringifyAny \/ SchemaParseSent \/ SchemaParseStray

Spec == Init /\ [][Next]_vars

----------------------------------------------------------------------------
(* One StreamView: created, or made from a string, then read and written  *)
(* through the shared codec instances                                       *)

MaxCapacity == 4    \* longest buffer allocated

\* StreamView.create(byteLength)
Create(byteLength) ==
    /\ streamView' = StreamViewCreate(byteLength)
    /\ last' = [op |-> "create"]
    /\ UNCHANGED <<definition, heap, definitions, definitionsById,
                   nextDefinitionId>>

\* StreamView.createFromString(string)
CreateFromString(string) ==
    /\ streamView' = StreamViewCreateFromString(string)
    /\ last' = [op |-> "createFromString"]
    /\ UNCHANGED <<definition, heap, definitions, definitionsById,
                   nextDefinitionId>>

\* _codecs[type].get(streamView, littleEndian)
Get(type, littleEndian) ==
    /\ \E r \in {SharedCodecGet(Codec(type), streamView, littleEndian)} :
           /\ streamView' = r.sv
           /\ last' = [op |-> "get", type |-> type, ok |-> r.ok,
                       err |-> IF r.ok THEN "" ELSE r.err,
                       value |-> IF r.ok THEN r.value ELSE Undefined]
    /\ UNCHANGED <<definition, heap, definitions, definitionsById,
                   nextDefinitionId>>

\* _codecs[type].set(streamView, value, littleEndian)
Set(type, v, littleEndian) ==
    /\ \E r \in {SharedCodecSet(Codec(type), streamView, v, littleEndian)} :
           /\ streamView' = r.sv
           /\ last' = [op |-> "set", type |-> type, ok |-> r.ok,
                       err |-> IF r.ok THEN "" ELSE r.err,
                       value |-> Undefined]
    /\ UNCHANGED <<definition, heap, definitions, definitionsById,
                   nextDefinitionId>>

\* the values written through a shared codec
StreamSamples(type) ==
    CASE type \in IntTypes -> {Num(300)}
      [] type \in FloatTypes -> {Num(3)}
      [] type = "boolean" -> {BoolV(TRUE)}
      [] type = "variableLength" -> {Num(200)}
      [] type = "string" -> {StrV(<<65, 233>>)}
      [] type = "booleanArray" -> {ArrV([i \in 1 .. 9 |-> BoolV(TRUE)])}

CreateAny == \E byteLength \in 0 .. MaxCapacity : Create(byteLength)

CreateFromStringAny ==
    \E string \in {<<>>, <<7>>, <<2, 65, 66>>, <<5, 1>>, <<129, 128, 0, 9>>} :
        CreateFromString(string)

GetAny == \E type \in CodecNames : \E le \in BOOLEAN : Get(type, le)

SetAny ==
    \E type \in CodecNames : \E v \in StreamSamples(type) : \E le \in BOOLEAN :
        Set(type, v, le)

StreamNext == CreateAny \/ CreateFromStringAny \/ GetAny \/ SetAny

SpecStream == Init /\ [][StreamNext]_vars

----------------------------------------------------------------------------
(* Properties of the Schema, stated of Spec *)

\* C1: Schema dispatch round-trip.  For every registered name and every value
\* within the range of its field types, stringify succeeds, and parsing the
\* string it returned gives back {key: name, data: value}.
C1_RoundTrip ==
    /\ (last.op = "stringify" /\ last.key \in DOMAIN definitions) => last.ok
    /\ (last.op = "parse" /\ last.sent) =>
           /\ last.ok
           /\ last.value = [key |-> last.key, data |-> last.object]

\* every define call made so far has succeeded
AllDefinesSucceeded == Len(heap) = nextDefinitionId - 1

\* ids in registration order from 1; an id names one Definition only
C2_Sequential ==
    /\ AllDefinesSucceeded =>
           \A k \in 1 .. Len(heap) :
               /\ heap[k].id = k
               /\ k \in DOMAIN definitionsById
               /\ definitionsById[k] = k
    /\ \A id \in DOMAIN definitionsById : heap[definitionsById[id]].id = id
    /\ \A r1, r2 \in 1 .. Len(heap) : heap[r1].id = heap[r2].id => r1 = r2

\* a binding of an id, once made, stays as it is
C2_Stable ==
    \A id \in DOMAIN definitionsById :
        /\ id \in DOMAIN definitionsById'
        /\ definitionsById'[id] = definitionsById[id]
        /\ heap'[definitionsById[id]].id = heap[definitionsById[id]].id
        /\ heap'[definitionsById[id]].key = heap[definitionsById[id]].key
        /\ heap'[definitionsById[id]].codec = heap[definitionsById[id]].codec

\* C2: Schema ids are sequential in registration order starting at 1: when
\* every define call succeeded the k-th one got id k; no id is bound to two
\* Definitions, and a binding once made never changes.
C2_SequentialIds == []C2_Sequential /\ [][C2_Stable]_vars

\* two defines have succeeded, the second under the name of the first, and
\* a message has been stringified since
C2_Witness ==
    /\ nextDefinitionId = 3
    /\ Len(heap) = 2
    /\ heap[1].key = heap[2].key
    /\ definitionsById[1] = 1
    /\ definitionsById[2] = 2
    /\ last.op = "stringify"

\* C3: Unknown-key errors.  stringify under a name no define registered fails
\* with the not-defined error and yields no bytes; parse of a string whose id
\* has no Definition fails with the not-defined error.
C3_UnknownKey ==
    /\ (last.op = "stringify" /\ last.key \notin DOMAIN definitions) =>
           (~last.ok /\ last.err = NotDefined /\ last.string = <<>>)
    /\ (last.op = "parse" /\ last.id >= 0
        /\ last.id \notin DOMAIN definitionsById) =>
           (~last.ok /\ last.err = NotDefined)

----------------------------------------------------------------------------
(* Properties of the codecs of a standalone Definition, stated of SpecDef *)

\* 2^b as a number, b < 32
TwoTo(b) == IF b < 16 THEN Num(Pow2(b)) ELSE Wide(Pow2(b - 16), 0)

\* v - 1 and -v
Pred(v) == IF v.lo > 0 THEN Wide(v.hi, v.lo - 1) ELSE Wide(v.hi - 1, Limb - 1)
Negate(v) == IF v.lo = 0 THEN Wide(-v.hi, 0) ELSE Wide(-v.hi - 1, Limb - v.lo)

\* the two's-complement range of a signed field, [0, 2^bits - 1] of an unsigned
RangeMin(bits, signed) == IF signed THEN Negate(TwoTo(bits - 1)) ELSE Num(0)
RangeMax(bits, signed) == Pred(TwoTo(IF signed THEN bits - 1 ELSE bits))

Clamp(v, lo, hi) == IF Less(v, lo) THEN lo ELSE IF Less(hi, v) THEN hi ELSE v

\* v clamped to the range of the integer codec of the given type
Clamped(type, v) ==
    Clamp(v, RangeMin(8 * Accessor(type).width, Accessor(type).signed),
          RangeMax(8 * Accessor(type).width, Accessor(type).signed))

\* C4: Integer clamping and round-trip.  For every integer codec and integer
\* v, set(v) succeeds and writes the bytes set(clamp(v)) writes, and a get of
\* them returns clamp(v): no out-of-range v raises an error or wraps.
C4_IntegerClamp ==
    definition.codec.type \in IntTypes =>
        /\ last.op = "stringify" =>
               /\ last.ok
               /\ Len(last.string) = Accessor(definition.codec.type).width
               /\ last.string =
                      DefinitionStringify(
                          definition,
                          Clamped(definition.codec.type, last.object)).value
        /\ (last.op = "parse" /\ last.sent) =>
               /\ last.ok
               /\ last.value = Clamped(definition.codec.type, last.object)

\* 200 written through the signed 8-bit codec has been read back as 127
C4_Witness ==
    /\ definition.codec.type = "int8"
    /\ last.op = "parse" /\ last.sent
    /\ last.object = Num(200)
    /\ last.value = Num(127)

\* C5: Varint round-trip.  For every v from 0 to 2^32 - 1, set(v) writes
\* getByteLength(v) bytes and a get of them returns v; the lengths of 0, 127,
\* 128, 16383 and 16384 are 1, 1, 2, 2 and 3.
C5_VarintRoundTrip ==
    /\ VarintGetByteLength(Num(0)) = 1
    /\ VarintGetByteLength(Num(127)) = 1
    /\ VarintGetByteLength(Num(128)) = 2
    /\ VarintGetByteLength(Num(16383)) = 2
    /\ VarintGetByteLength(Num(16384)) = 3
    /\ definition.codec.type = "variableLength" =>
           /\ last.op = "stringify" =>
                  /\ last.ok
                  /\ last.sv.byteOffset = VarintGetByteLength(last.object)
           /\ (last.op = "parse" /\ last.sent) =>
                  (last.ok /\ last.value = last.object)

\* bit b of a byte
BitOf(byte, b) == (byte \div Pow2(b)) % 2 = 1

\* C6: Boolean array codec.  set writes the count, then ceil(n/8) bytes with
\* element i in bit (i mod 8) of byte floor(i/8); get on those bytes returns
\* the n booleans in their order, whatever the padding bits.
C6_BooleanArray ==
    definition.codec.type = "booleanArray" =>
        /\ last.op = "stringify" =>
               /\ last.ok
               /\ Len(last.string) = 1 + (Len(last.object.values) + 7) \div 8
               /\ last.string[1] = Len(last.object.values)
               /\ \A i \in 0 .. Len(last.object.values) - 1 :
                      BitOf(last.string[2 + i \div 8], i % 8)
                          = last.object.values[i + 1].b
        /\ (last.op = "parse" /\ last.sent) =>
               /\ last.ok
               /\ last.value = ArrV(last.object.values)
               /\ Len(last.value.values) = Len(last.object.values)

\* nine booleans, the last one true, have come back from a two-byte bit region
C6_Witness ==
    /\ definition.codec.type = "booleanArray"
    /\ last.op = "parse" /\ last.sent
    /\ Len(last.object.values) = 9
    /\ last.object.values[9].b
    /\ Len(last.string) = 3
    /\ last.value = last.object


\* a field description that Field must refuse
Refused(options) ==
    \/ options.key = "" \/ options.key = Absent
    \/ ~isValidType(options.type)
    \/ /\ options.type = "array"
       /\ \/ options.valueType = "array"
          \/ options.valueType = "string"
          \/ ~isValidType(options.valueType)

\* C8: Shape errors occur only at construction time.  Every Field of a
\* Definition that was constructed is bound to a codec, and no stringify or
\* parse fails for want of one.
C8_FieldsHaveCodecs ==
    definition.codec.type = "object" =>
        /\ \A i \in 1 .. Len(definition.codec.fields) :
               definition.codec.fields[i].codec # NoCodec
        /\ last.op \in {"stringify", "parse"} => last.err # "TypeError"

\* C9: Field validation.  Construction fails, and no Field or Definition
\* comes of it, when a key is empty or absent, a type is not recognized, or
\* an array's element type is array, string or not recognized.
C9_FieldValidation ==
    (/\ last.op = "define"
     /\ last.codec = "object"
     /\ \E i \in 1 .. Len(last.arg) : Refused(last.arg[i])) =>
        (~last.ok /\ definition = NoDefinition)

\* an array of strings under a good key has been refused
C9_Witness ==
    /\ last.op = "define"
    /\ last.codec = "object"
    /\ Len(last.arg) = 1
    /\ last.arg[1] = Opt("n", "array", "string")
    /\ ~last.ok
    /\ definition = NoDefinition

\* the fields of the Definition's ObjectCodec
Fields == definition.codec.fields
AllFixed == \A i \in 1 .. Len(Fields) : Fields[i].codec.type \in FixedTypes
SomeDynamic ==
    \E i \in 1 .. Len(Fields) :
        Fields[i].codec.type \in {"variableLength", "string", "booleanArray",
                                  "array"}

\* the sum of the widths of fixed-length fields
RECURSIVE SumOfWidths(_)
SumOfWidths(i) ==
    IF i > Len(Fields) THEN 0
    ELSE Accessor(Fields[i].codec.type).width + SumOfWidths(i + 1)

\* the sum of the byte lengths the fields' codecs report for the object's values
RECURSIVE SumForObject(_, _)
SumForObject(object, i) ==
    IF i > Len(Fields) THEN 0
    ELSE (IF Fields[i].codec = NoCodec THEN 0
          ELSE FieldCodecGetByteLength(Fields[i].codec,
                                       Prop(object, Fields[i].key)))
         + SumForObject(object, i + 1)

C10_Cache ==
    definition.codec.type = "object" =>
        /\ definition.byteLength # <<>> =>
               (AllFixed /\ definition.byteLength[1] = SumOfWidths(1))
        /\ (AllFixed /\ last.op = "getByteLength") =>
               (last.ok /\ last.value = SumOfWidths(1))
        /\ SomeDynamic =>
               /\ definition.byteLength = <<>>
               /\ last.op = "getByteLength" =>
                      /\ last.ok
                      /\ last.value = SumForObject(last.object, 1)

C10_WrittenOnce ==
    definition.byteLength # <<>> => definition'.byteLength = definition.byteLength

\* C10: Fixed-length cache.  The cached byteLength of an ObjectCodec is
\* written only when every field is fixed-length, once, and never changes;
\* with only fixed-length fields getByteLength always returns the sum of the
\* widths, and with a dynamic-length field the cache stays unset and
\* getByteLength returns the sum computed from the value passed.
C10_FixedLengthCache == []C10_Cache /\ [][C10_WrittenOnce]_vars

----------------------------------------------------------------------------
(* Properties of the StreamView, stated of SpecStream *)

\* the cursor stays within the buffer
C7_InBounds ==
    0 <= streamView.byteOffset /\ streamView.byteOffset <= Len(streamView.bytes)

\* a fixed-length access reaching beyond the buffer throws RangeError and
\* leaves the buffer and the cursor as they were
C7_Refused ==
    (/\ last'.op \in {"get", "set"}
     /\ last'.type \in FixedTypes
     /\ streamView.byteOffset + FixedByteLength(last'.type)
            > Len(streamView.bytes)) =>
        /\ ~last'.ok
        /\ last'.err = "RangeError"
        /\ last'.value = Undefined
        /\ streamView' = streamView

----------------------------------------------------------------------------
(* Byte lengths and the bytes written, stated of SpecDef *)

\* C11: Exact-fit encoding.  For every codec and every value in its domain
\* set advances the cursor by getByteLength(value): after the writes of
\* stringify the cursor stands at the capacity of the buffer allocated, no
\* write was out of range and no trailing byte is left unwritten.
C11_ExactFit ==
    last.op = "stringify" =>
        /\ last.err # "RangeError"
        /\ last.ok => last.sv.byteOffset = Len(last.sv.bytes)

\* the byte length of the count prefix of n < 2^14 elements
PrefixLength(n) == IF n < 128 THEN 1 ELSE 2

\* the sum of the element codec's byte lengths over the values from i on
RECURSIVE SumOfElements(_, _, _)
SumOfElements(codec, values, i) ==
    IF i > Len(values) THEN 0
    ELSE SharedCodecGetByteLength(codec, values[i])
         + SumOfElements(codec, values, i + 1)

\* the elements of an array value; none for an absent one
ElementsOf(v) == IF v.t = "array" THEN v.values ELSE <<>>

\* count prefix + n * element byte length for a fixed-length element codec,
\* otherwise count prefix + the sum of the elements' byte lengths
ArrayByteLength(codec, v) ==
    PrefixLength(Len(ElementsOf(v)))
    + (IF codec.valueCodec.type \in FixedTypes
       THEN Len(ElementsOf(v)) * Accessor(codec.valueCodec.type).width
       ELSE SumOfElements(codec.valueCodec, ElementsOf(v), 1))

\* C12: Array codec byte length.  ArrayCodec.getByteLength returns the count
\* prefix plus the elements' byte lengths, which is the number of bytes
\* ArrayCodec.set writes; an empty or absent array is written as the count
\* prefix alone and is read back as an empty array.
C12_ArrayByteLength ==
    definition.codec.type = "array" =>
        /\ last.op = "getByteLength" =>
               (last.ok /\ last.value = ArrayByteLength(definition.codec,
                                                        last.object))
        /\ last.op = "stringify" =>
               /\ last.ok
               /\ last.sv.byteOffset = ArrayByteLength(definition.codec,
                                                       last.object)
               /\ Len(ElementsOf(last.object)) = 0 => last.string = <<0>>
        /\ (last.op = "parse" /\ last.sent
            /\ Len(ElementsOf(last.object)) = 0) =>
               (last.ok /\ last.value = ArrV(<<>>))

----------------------------------------------------------------------------
(* The bytes of a framed message and the registry, stated of Spec *)

\* a Definition of its own around a codec, as jettison.define makes it
Standalone(codec) ==
    [codec |-> codec, id |-> Absent, key |-> Absent, byteLength |-> <<>>]

\* the id codec's encoding of a Definition's id
IdEncoding(def) ==
    DefinitionStringify(Standalone(Codec("uint8")), Num(def.id)).value

\* the encodings of the fields from i on, each by its own codec, end to end
RECURSIVE FieldEncodings(_, _, _)
FieldEncodings(codec, object, i) ==
    IF i > Len(codec.fields) THEN <<>>
    ELSE DefinitionStringify(Standalone(codec.fields[i].codec),
                             Prop(object, codec.fields[i].key)).value
         \o FieldEncodings(codec, object, i + 1)

\* the Definition registered under the name of the last call
Registered == heap[definitions[last.key]]

\* C13: Wire layout of a schema-framed message.  Schema.stringify(name, v) is
\* the id codec's encoding of the Definition's id followed by the bytes of the
\* Definition's own stringify(v), which are the field encodings in declared
\* order without tags or padding; Schema.parse reads them back in that order.
C13_WireLayout ==
    /\ (last.op = "stringify" /\ last.ok) =>
           /\ last.string = IdEncoding(Registered)
                            \o DefinitionStringify(Registered, last.object).value
           /\ DefinitionStringify(Registered, last.object).value
                  = FieldEncodings(Registered.codec, last.object, 1)
    /\ (last.op = "parse" /\ last.sent) =>
           /\ last.ok = DefinitionParse(Registered, Tail(last.string)).ok
           /\ last.ok => last.value.data
                             = DefinitionParse(Registered,
                                               Tail(last.string)).value

\* what stringify and parse must leave alone
C14_Frame ==
    last'.op \in {"stringify", "parse"} =>
        /\ definitions' = definitions
        /\ definitionsById' = definitionsById
        /\ nextDefinitionId' = nextDefinitionId
        /\ Len(heap') = Len(heap)
        /\ \A r \in 1 .. Len(heap) :
               /\ heap'[r].codec = heap[r].codec
               /\ heap'[r].id = heap[r].id
               /\ heap'[r].key = heap[r].key

\* C14: Use-phase operations are read-only on the registry.  A stringify or
\* parse, succeeding or failing, leaves both maps, the next-id counter and
\* every Definition's fields, id and name as they were; only the byte-length
\* cache of an ObjectCodec may change.
C14_ReadOnlyUse == [][C14_Frame]_vars

\* a stringify has filled the cache of the second of two Definitions
C14_Witness ==
    /\ last.op = "stringify" /\ last.ok
    /\ Len(heap) = 2
    /\ definitions[last.key] = 2
    /\ heap[2].byteLength = <<1>>
    /\ heap[1].byteLength = <<>>
    /\ nextDefinitionId = 3

C16_Frame ==
    (last'.op = "define" /\ ~last'.ok) =>
        /\ definitions' = definitions
        /\ definitionsById' = definitionsById
        /\ nextDefinitionId' = nextDefinitionId

\* C16: a Schema.define call that throws leaves the Schema unchanged: the
\* name map, the id map and the next-id counter are as before the call.
C16_FailedDefine == [][C16_Frame]_vars

\* C17: the two registries stay consistent: every Definition reachable through
\* the id map is the one the name map holds under its name, and the two maps
\* hold the same number of Definitions.
C17_Consistent ==
    /\ \A id \in DOMAIN definitionsById :
           /\ heap[definitionsById[id]].key \in DOMAIN definitions
           /\ definitions[heap[definitionsById[id]].key] = definitionsById[id]
    /\ Cardinality(DOMAIN definitions) = Cardinality(DOMAIN definitionsById)

----------------------------------------------------------------------------
(* One Schema from createSchema() given many Definitions, each under a name *)
(* of its own, and used after each define                                   *)

MaxIds == 257    \* highest id a define is given

\* the name of the Definition that is given the id
NameOf(id) == ToString(id)

\* the names asked of stringify: the first Definition and the latest one
ManyNames == {NameOf(1), NameOf(nextDefinitionId - 1)} \cap DOMAIN definitions

\* schema.define(name, 'uint8') under a name not used before
ManyDefine ==
    /\ nextDefinitionId <= MaxIds
    /\ SchemaDefine(NameOf(nextDefinitionId), "uint8", Absent)

ManyStringify ==
    \E key \in ManyNames : SchemaStringify(key, Num(7))

ManyParse ==
    /\ last.op = "stringify" /\ last.ok
    /\ SchemaParse(last.string, TRUE, last.key, last.object)

ManyNext == ManyDefine \/ ManyStringify \/ ManyParse

SpecMany == Init /\ [][ManyNext]_vars

\* the Definition defined last
Latest == heap[definitionsById[nextDefinitionId - 1]]

\* C18: the id on the wire identifies the Definition, for any number of
\* defines: the id Schema.stringify writes is the id define assigned, no two
\* registered Definitions have the same id prefix, and Schema.parse hands a
\* message to the Definition that encoded it.
C18_IdOnWire ==
    /\ (last.op = "stringify" /\ last.ok) =>
           /\ last.string[1] = Registered.id
           /\ last.string = IdEncoding(Registered) \o <<7>>
    /\ \A id \in DOMAIN definitionsById :
           id # Latest.id =>
               IdEncoding(heap[definitionsById[id]]) # IdEncoding(Latest)
    /\ (last.op = "parse" /\ last.sent) =>
           /\ last.ok
           /\ last.value.key = last.key
           /\ last.id = Registered.id

----------------------------------------------------------------------------
(* Decoding step by step: one Definition and one Schema, and a parse that   *)
(* runs one loop iteration or one call at a time.  last.stack holds the     *)
(* calls in progress, innermost last; last.reads counts the bytes read.     *)

\* a call in progress: where it is, its codec, and its loop variables
Frame(pc, codec, i, n, from) ==
    [pc |-> pc, codec |-> codec, i |-> i, n |-> n, from |-> from, length |-> {}]

\* codec.get(streamView) about to run
Call(codec) == Frame("get", codec, 0, 0, 0)

Top == last.stack[Len(last.stack)]
Callers == SubSeq(last.stack, 1, Len(last.stack) - 1)
At(pc) == last.op = "decoding" /\ last.stack # <<>> /\ Top.pc = pc

\* the parse ends by throwing
Thrown(err, reads) ==
    [op |-> "decoded", ok |-> FALSE, err |-> err, string |-> last.string,
     schema |-> last.schema, reads |-> reads]

\* the innermost call returns to its caller
Return == [last EXCEPT !.stack = Callers]

\* the innermost call reads one byte and goes on as the frame next
ReadByte(next) ==
    \E r \in {FixedLengthCodecGet("uint8", streamView, FALSE)} :
        IF r.ok
        THEN /\ streamView' = r.sv
             /\ last' = [last EXCEPT !.stack = Append(Callers, next),
                                     !.reads = @ + 1]
        ELSE /\ streamView' = streamView
             /\ last' = Thrown(r.err, last.reads)

\* the count a variableLength get has just returned
Count == ToInt32(Int32Of(last.ret))

\* definition.parse(string) is called
BeginDefinitionParse(string) ==
    /\ last.op # "decoding"
    /\ definition # NoDefinition
    /\ streamView' = StreamViewCreateFromString(string)
    /\ last' = [op |-> "decoding", schema |-> FALSE, string |-> string,
                stack |-> <<Call(definition.codec)>>, ret |-> {}, reads |-> 0]
    /\ UNCHANGED <<definition, heap, definitions, definitionsById,
                   nextDefinitionId>>

\* schema.parse(string) is called
BeginSchemaParse(string) ==
    /\ last.op # "decoding"
    /\ streamView' = StreamViewCreateFromString(string)
    /\ last' = [op |-> "decoding", schema |-> TRUE, string |-> string,
                stack |-> <<Frame("id", Codec("uint8"), 0, 0, 0)>>,
                ret |-> {}, reads |-> 0]
    /\ UNCHANGED <<definition, heap, definitions, definitionsById,
                   nextDefinitionId>>

\* Schema.parse reads the id and finds the Definition
StepId ==
    /\ At("id")
    /\ \E r \in {FixedLengthCodecGet(Top.codec.type, streamView, FALSE)} :
           /\ streamView' = IF r.ok THEN r.sv ELSE streamView
           /\ last' = IF ~r.ok THEN Thrown(r.err, last.reads)
                      ELSE IF r.value.lo \notin DOMAIN definitionsById
                      THEN Thrown(NotDefined, last.reads + 1)
                      ELSE [last EXCEPT
                               !.stack = <<Call(heap[definitionsById[
                                                   r.value.lo]].codec)>>,
                               !.reads = @ + 1]
    /\ UNCHANGED <<definition, heap, definitions, definitionsById,
                   nextDefinitionId>>

\* FixedLengthCodec.get and BooleanCodec.get: one read
StepGetFixed ==
    /\ At("get")
    /\ Top.codec.type \in IntTypes \cup FloatTypes \cup {"boolean"}
    /\ \E r \in {FixedLengthCodecGet(Top.codec.type, streamView, FALSE)} :
           /\ streamView' = IF r.ok THEN r.sv ELSE streamView
           /\ last' = IF r.ok
                      THEN [last EXCEPT
                               !.stack = Callers,
                               !.reads = @ + FixedByteLength(Top.codec.type)]
                      ELSE Thrown(r.err, last.reads)
    /\ UNCHANGED <<definition, heap, definitions, definitionsById,
                   nextDefinitionId>>

\* codec.get(streamView) is called on a codec that is not of fixed length and
\* reads nothing before its first call or iteration: a field that has no codec
\* throws; VariableLengthUnsignedIntegerCodec.get starts with length = 0,
\* i = 0; StringCodec.get, BooleanArrayCodec.get and ArrayCodec.get first call
\* _codecs.variableLength.get; ObjectCodec.get starts at its first field
StepCall ==
    /\ At("get")
    /\ Top.codec.type \notin IntTypes \cup FloatTypes \cup {"boolean"}
    /\ last' =
           CASE Top.codec = NoCodec -> Thrown("TypeError", last.reads)
             [] Top.codec.type = "variableLength" ->
                   [last EXCEPT
                       !.stack = Append(Callers,
                                        Frame("varint", Top.codec, 0, 0, 0))]
             [] Top.codec.type \in {"string", "booleanArray", "array"} ->
                   [last EXCEPT
                       !.stack = Callers
                                 \o <<Frame("count", Top.codec, 0, 0, 0),
                                      Frame("varint", Codec("variableLength"),
                                            0, 0, 0)>>]
             [] Top.codec.type = "object" ->
                   [last EXCEPT
                       !.stack = Append(Callers,
                                        Frame("fields", Top.codec, 1,
                                              Len(Top.codec.fields), 0))]
    /\ UNCHANGED <<streamView, definition, heap, definitions, definitionsById,
                   nextDefinitionId>>

\* one iteration of the loop of VariableLengthUnsignedIntegerCodec.get
StepVarint ==
    /\ At("varint")
    /\ \E r \in {FixedLengthCodecGet("uint8", streamView, FALSE)} :
           /\ streamView' = IF r.ok THEN r.sv ELSE streamView
           /\ last' =
                  IF ~r.ok THEN Thrown(r.err, last.reads)
                  ELSE IF r.value.lo >= 128
                  THEN [last EXCEPT
                           !.stack = Append(Callers,
                               [Top EXCEPT
                                   !.i = @ + 1,
                                   !.length = @ \cup ShiftLeft(r.value.lo % 128,
                                                              Top.i * 7)]),
                           !.reads = @ + 1]
                  ELSE [last EXCEPT
                           !.stack = Callers,
                           !.ret = Top.length \cup ShiftLeft(r.value.lo % 128,
                                                            Top.i * 7),
                           !.reads = @ + 1]
    /\ UNCHANGED <<definition, heap, definitions, definitionsById,
                   nextDefinitionId>>

\* _codecs.variableLength.get has returned the length to the get that called
\* it: StringCodec.get and ArrayCodec.get return at once unless length > 0;
\* BooleanArrayCodec.get loops over Math.ceil(length / 8) bytes
StepCount ==
    /\ At("count")
    /\ last' =
           CASE Top.codec.type = "string" ->
                   IF Count > 0
                   THEN [last EXCEPT
                            !.stack = Append(Callers,
                                             Frame("chars", Top.codec, 0, Count,
                                                   streamView.byteOffset))]
                   ELSE Return
             [] Top.codec.type = "booleanArray" ->
                   [last EXCEPT
                       !.stack = Append(Callers,
                                        Frame("bytes", Top.codec, 0,
                                              CeilDiv(Count, 8), 0))]
             [] Top.codec.type = "array" ->
                   IF Count > 0
                   THEN [last EXCEPT
                            !.stack = Append(Callers,
                                             Frame("elements", Top.codec, 0,
                                                   Count, 0))]
                   ELSE Return
    /\ UNCHANGED <<streamView, definition, heap, definitions, definitionsById,
                   nextDefinitionId>>

\* one iteration of the loop of StringCodec.get, and utf8.decode after it
StepChars ==
    /\ At("chars")
    /\ IF Top.i < Top.n
       THEN ReadByte([Top EXCEPT !.i = @ + 1])
       ELSE /\ streamView' = streamView
            /\ last' = IF Utf8Decode(SubSeq(streamView.bytes, Top.from + 1,
                                            Top.from + Top.n), 1) = Invalid
                       THEN Thrown("Error", last.reads)
                       ELSE Return
    /\ UNCHANGED <<definition, heap, definitions, definitionsById,
                   nextDefinitionId>>

\* one iteration of the outer loop of BooleanArrayCodec.get
StepBytes ==
    /\ At("bytes")
    /\ IF Top.i < Top.n
       THEN ReadByte([Top EXCEPT !.i = @ + 1])
       ELSE /\ streamView' = streamView
            /\ last' = Return
    /\ UNCHANGED <<definition, heap, definitions, definitionsById,
                   nextDefinitionId>>

\* one iteration of the loop of ArrayCodec.get: call the value codec
StepElements ==
    /\ At("elements")
    /\ last' = IF Top.i < Top.n
               THEN [last EXCEPT
                        !.stack = Callers
                                  \o <<[Top EXCEPT !.i = @ + 1],
                                       Call(Top.codec.valueCodec)>>]
               ELSE Return
    /\ UNCHANGED <<streamView, definition, heap, definitions, definitionsById,
                   nextDefinitionId>>

\* one iteration of the loop of ObjectCodec.get: call the field's codec
StepFields ==
    /\ At("fields")
    /\ last' = IF Top.i <= Top.n
               THEN [last EXCEPT
                        !.stack = Callers
                                  \o <<[Top EXCEPT !.i = @ + 1],
                                       Call(Top.codec.fields[Top.i].codec)>>]
               ELSE Return
    /\ UNCHANGED <<streamView, definition, heap, definitions, definitionsById,
                   nextDefinitionId>>

\* the outermost get has returned: parse returns
StepReturn ==
    /\ last.op = "decoding"
    /\ last.stack = <<>>
    /\ last' = [op |-> "decoded", ok |-> TRUE, err |-> "",
                string |-> last.string, schema |-> last.schema,
                reads |-> last.reads]
    /\ UNCHANGED <<streamView, definition, heap, definitions, definitionsById,
                   nextDefinitionId>>

\* the Definitions decoded with
DecodeDefineArgs ==
    {<<"variableLength", Absent>>, <<"string", Absent>>,
     <<"booleanArray", Absent>>, <<"array", "int16">>,
     <<"array", "variableLength">>,
     <<"object", <<Opt("n", "variableLength", Absent),
                   Opt("s", "string", Absent)>>>>,
     <<"object", <<Opt("xs", "array", "uint8"),
                   Opt("o", "object", Absent)>>>>}

DecodeSchemaDefineArgs ==
    {<<"object", <<Opt("n", "variableLength", Absent),
                   Opt("b", "booleanArray", Absent)>>>>,
     <<"object", <<Opt("xs", "array", "uint16")>>>>}

\* the strings parsed: whole, truncated, with a count beyond the end, and
\* with every byte a continuation
DecodeStrings ==
    {<<>>, <<0>>, <<1>>, <<2, 65>>, <<128>>, <<128, 128>>, <<255, 255, 255>>,
     <<5, 0, 1>>, <<1, 1, 65>>, <<2, 3, 1, 7>>, <<1, 200>>, <<2, 0, 1, 0>>,
     <<129, 0, 7>>, <<2, 1, 0, 7>>, <<255, 255, 255, 255, 15>>,
     <<255, 255, 255, 255, 7>>}

DecodeDefine ==
    /\ last.op # "decoding"
    /\ \E a \in DecodeDefineArgs : Define(a[1], a[2])

DecodeSchemaDefine ==
    /\ last.op # "decoding"
    /\ nextDefinitionId <= MaxDefs
    /\ \E a \in DecodeSchemaDefineArgs : SchemaDefine("ping", a[1], a[2])

DecodeBegin ==
    \E string \in DecodeStrings :
        BeginDefinitionParse(string) \/ BeginSchemaParse(string)

\* the statements of a parse under way
DecodeRun ==
    \/ StepId \/ StepGetFixed \/ StepCall \/ StepVarint \/ StepCount
    \/ StepChars \/ StepBytes \/ StepElements \/ StepFields \/ StepReturn

DecodeNext == DecodeDefine \/ DecodeSchemaDefine \/ DecodeBegin \/ DecodeRun

\* a call, once made, runs to completion: nothing else is scheduled
SpecDecode == Init /\ [][DecodeNext]_vars /\ WF_vars(DecodeRun)

\* the cursor and the bytes read stay within the input
C15_InBounds ==
    last.op \in {"decoding", "decoded"} =>
        /\ streamView.bytes = last.string
        /\ streamView.byteOffset <= Len(last.string)
        /\ last.reads <= Len(last.string)

\* C15: Termination of decoding.  For every Schema and Definition and every
\* input string, truncated ones, ones whose every byte is a continuation and
\* ones whose count is larger than what remains included, a parse that has
\* begun ends, returning or throwing, and reads at most the bytes of the input.
C15_Termination ==
    /\ []C15_InBounds
    /\ (last.op = "decoding") ~> (last.op = "decoded")

\* a parse of a variableLength whose every byte is a continuation has thrown
\* at the end of the input
C15_Witness ==
    /\ last.op = "decoded"
    /\ ~last.schema
    /\ definition.codec.type = "variableLength"
    /\ last.string = <<128, 128>>
    /\ last.err = "RangeError"
    /\ last.reads = 2
    /\ streamView.byteOffset = 2

====
